---- MODULE Spec2Model ----
(***************************************************************************)
(* Model of maa-cli's configuration value type                             *)
(* (maa-cli/src/config/task/value/mod.rs): the Value enum, its in-place    *)
(* resolution pass init, the typed coercions, the deep merge and the       *)
(* untagged serde encoding.                                                *)
(*                                                                         *)
(* A Value is a record [t |-> variant, v |-> payload].  Option<T> is a     *)
(* sequence of length 0 (None) or 1 (Some).  f64 payloads are the floats   *)
(* k.0, written k.  A Map<Value> (BTreeMap<String, Value>) is a function   *)
(* from its key set to Values, iterated in ascending key order.            *)
(***************************************************************************)
EXTENDS Naturals, Sequences, FiniteSets, TLC

VARIABLES
    value,  \* self: the Value an operation is called on
    other,  \* the right-hand operand of merge / merge_mut
    wire,   \* the serialized form last produced by Serialize, <<>> when none
    op,     \* the operation that ran last
    args,   \* the arguments it was called with, other aside
    pre,    \* self as it was when that operation was called
    ret,    \* what that operation returned
    calls   \* the Input Resolution Capability invocations it made, in order

vars == <<value, other, wire, op, args, pre, ret, calls>>

(***************************************************************************)
(* Bounds of the model.                                                    *)
(***************************************************************************)
\* i64 and f64 payloads, and the answers a user can give, range over 1..MaxInt
MaxInt == 2
\* Arrays hold at most MaxLen elements
MaxLen == 2

(***************************************************************************)
(* The Value enum (mod.rs 12-24) and its constructors (mod.rs 32-138).     *)
(***************************************************************************)
Null == [t |-> "Null"]
Bool(b) == [t |-> "Bool", v |-> b]
Int(i) == [t |-> "Int", v |-> i]
Float(f) == [t |-> "Float", v |-> f]
String(s) == [t |-> "String", v |-> s]
InputBool(d) == [t |-> "InputBool", v |-> d]
InputInt(d) == [t |-> "InputInt", v |-> d]
InputFloat(d) == [t |-> "InputFloat", v |-> d]
InputString(d) == [t |-> "InputString", v |-> d]
Array(s) == [t |-> "Array", v |-> s]
Object(m) == [t |-> "Object", v |-> m]

\* Value::new(): the empty Object
new == Object(<<>>)

\* The pending-input descriptors (value/input.rs): BoolInput and Input<T> carry
\* an optional default and an optional description, Select<T> a list of
\* alternatives and an optional description.
BoolInput(default, description) ==
    [default |-> default, description |-> description]
Input(default, description) ==
    [kind |-> "Input", default |-> default, description |-> description]
Select(alternatives, description) ==
    [kind |-> "Select", alternatives |-> alternatives, description |-> description]

PendingTags == {"InputBool", "InputInt", "InputFloat", "InputString"}
ScalarTags == {"Bool", "Int", "Float", "String"}

\* The literal variant each pending-input variant resolves to (mod.rs 146-149)
LiteralTag(t) ==
    CASE t = "InputString" -> "String"
      [] t = "InputBool" -> "Bool"
      [] t = "InputInt" -> "Int"
      [] t = "InputFloat" -> "Float"

\* Map<T> is a BTreeMap<String, T>: its keys are visited in ascending byte
\* order.  KeyOrder lists the keys of the model in that order.
KeyOrder == <<"a", "alternatives", "b", "c", "default", "description">>
Keys == {KeyOrder[i] : i \in DOMAIN KeyOrder}
SortedKeys(m) == SelectSeq(KeyOrder, LAMBDA k : k \in DOMAIN m)
\* The values of a map in key order (BTreeMap::values_mut)
MapValues(m) == [i \in 1..Len(SortedKeys(m)) |-> m[SortedKeys(m)[i]]]
\* The map with the same keys holding the given values, in key order
MapWithValues(m, vs) ==
    [k \in DOMAIN m |-> vs[CHOOSE i \in 1..Len(SortedKeys(m)) : SortedKeys(m)[i] = k]]

(***************************************************************************)
(* The Input Resolution Capability (UserInput::get, BoolInput::get).  One  *)
(* invocation either fails or yields a scalar of the node's type.  The     *)
(* answer to each invocation is chosen by the environment: 0 is a failure, *)
(* k > 0 the k-th scalar of the type.                                      *)
(***************************************************************************)
Answers == 0..MaxInt
Failed(answer) == answer = 0
StrPool == <<"s", "x">>
AnswerValue(t, k) ==
    CASE t = "InputBool" -> (k % 2 = 1)
      [] t = "InputInt" -> k
      [] t = "InputFloat" -> k
      [] t = "InputString" -> StrPool[((k - 1) % Len(StrPool)) + 1]

\* Result<T, E>
Ok(x) == [ok |-> TRUE, v |-> x]
Err(e) == [ok |-> FALSE, e |-> e]
Unit == "()"

(***************************************************************************)
(* Value::init (mod.rs 144-164).  script is the sequence of answers the    *)
(* capability gives to the invocations still to come.  The result is the   *)
(* tree as init leaves it, whether it returned Ok, and the invocations it  *)
(* made.                                                                   *)
(***************************************************************************)
RECURSIVE init(_, _)
RECURSIVE InitChildren(_, _)
RECURSIVE InitChildrenKeepGoing(_, _)

\* the loop without the ?: every child is initialized, an error is reported last
InitChildrenKeepGoing(vs, script) ==
    IF vs = <<>> THEN [v |-> <<>>, ok |-> TRUE, calls |-> <<>>]
    ELSE LET h == init(Head(vs), script)
             r == InitChildrenKeepGoing(Tail(vs),
                      SubSeq(script, Len(h.calls) + 1, Len(script))) IN
         [v |-> <<h.v>> \o r.v, ok |-> h.ok /\ r.ok, calls |-> h.calls \o r.calls]

\* for value in ... { value.init()?; }  (mod.rs 151-153, 156-158)
InitChildren(vs, script) ==
    IF vs = <<>> THEN [v |-> <<>>, ok |-> TRUE, calls |-> <<>>]
    ELSE LET h == init(Head(vs), script) IN
         IF ~h.ok
         THEN [v |-> <<h.v>> \o Tail(vs), ok |-> FALSE, calls |-> h.calls]
         ELSE LET r == InitChildren(Tail(vs),
                           SubSeq(script, Len(h.calls) + 1, Len(script))) IN
              [v |-> <<h.v>> \o r.v, ok |-> r.ok, calls |-> h.calls \o r.calls]

\* Self::InputX(v) => *self = Self::X(v.get()?)  (mod.rs 146-149)
ResolveWrongVariant(v, answer) ==
    [t |-> IF v.t = "InputInt" THEN "Float" ELSE LiteralTag(v.t),
     v |-> AnswerValue(v.t, answer)]
ResolveInPlace(v, answer) ==
    [t |-> LiteralTag(v.t), v |-> AnswerValue(v.t, answer)]

\* the arms of init for the variants that hold no Value (mod.rs 146-149, 160)
InitLeafSkipInputFloat(v, script) ==
    IF v.t \in PendingTags \ {"InputFloat"}
    THEN IF Failed(script[1])
         THEN [v |-> v, ok |-> FALSE, calls |-> <<[node |-> v, answer |-> script[1]]>>]
         ELSE [v |-> ResolveInPlace(v, script[1]), ok |-> TRUE,
               calls |-> <<[node |-> v, answer |-> script[1]]>>]
    ELSE [v |-> v, ok |-> TRUE, calls |-> <<>>]
InitLeafRejectLiteral(v, script) ==
    IF v.t \in PendingTags
    THEN IF Failed(script[1])
         THEN [v |-> v, ok |-> FALSE, calls |-> <<[node |-> v, answer |-> script[1]]>>]
         ELSE [v |-> ResolveInPlace(v, script[1]), ok |-> TRUE,
               calls |-> <<[node |-> v, answer |-> script[1]]>>]
    ELSE [v |-> v, ok |-> v.t = "Null", calls |-> <<>>]
\* the pending arms asking once more after a failure
InitLeafRetryOnce(v, script) ==
    IF v.t \in PendingTags
    THEN IF Failed(script[1]) /\ Len(script) >= 2
         THEN [v |-> IF Failed(script[2]) THEN v ELSE ResolveInPlace(v, script[2]),
               ok |-> ~Failed(script[2]),
               calls |-> <<[node |-> v, answer |-> script[1]],
                           [node |-> v, answer |-> script[2]]>>]
         ELSE IF Failed(script[1])
         THEN [v |-> v, ok |-> FALSE, calls |-> <<[node |-> v, answer |-> script[1]]>>]
         ELSE [v |-> ResolveInPlace(v, script[1]), ok |-> TRUE,
               calls |-> <<[node |-> v, answer |-> script[1]]>>]
    ELSE [v |-> v, ok |-> TRUE, calls |-> <<>>]
InitLeaf(v, script) ==
    IF v.t \in PendingTags
    THEN IF Failed(script[1])
         THEN [v |-> v, ok |-> FALSE, calls |-> <<[node |-> v, answer |-> script[1]]>>]
         ELSE [v |-> ResolveInPlace(v, script[1]), ok |-> TRUE,
               calls |-> <<[node |-> v, answer |-> script[1]]>>]
    ELSE [v |-> v, ok |-> TRUE, calls |-> <<>>]

init(v, script) ==
    IF v.t = "Object"
    THEN LET r == InitChildren(MapValues(v.v), script) IN
         [v |-> Object(MapWithValues(v.v, r.v)), ok |-> r.ok, calls |-> r.calls]
    ELSE IF v.t = "Array"
    THEN LET r == InitChildren(v.v, script) IN
         [v |-> Array(r.v), ok |-> r.ok, calls |-> r.calls]
    ELSE InitLeaf(v, script)

\* The number of pending-input nodes of a tree: no init asks for more answers
RECURSIVE NumPending(_)
RECURSIVE SumPending(_)
SumPending(vs) ==
    IF vs = <<>> THEN 0 ELSE NumPending(Head(vs)) + SumPending(Tail(vs))
NumPending(v) ==
    IF v.t \in PendingTags THEN 1
    ELSE IF v.t = "Object" THEN SumPending(MapValues(v.v))
    ELSE IF v.t = "Array" THEN SumPending(v.v)
    ELSE 0

(***************************************************************************)
(* The type predicates and coercions (mod.rs 201-259) and the TryFrom      *)
(* conversions built on them (mod.rs 295-325).  A coercion takes the       *)
(* answer the capability gives should it be invoked; its result is the     *)
(* returned Result and the invocations made.                               *)
(***************************************************************************)
is_null(v) == v.t = "Null"
is_bool_literal_only(v) == v.t = "Bool"
is_bool(v) == v.t \in {"Bool", "InputBool"}
is_int(v) == v.t \in {"Int", "InputInt"}
is_float(v) == v.t \in {"Float", "InputFloat"}
is_string(v) == v.t \in {"String", "InputString"}
is_array(v) == v.t = "Array"
is_object(v) == v.t = "Object"

TypeMismatch == "TypeMismatch"
InputError == "InputError"

\* match self { Self::InputX(v) => Ok(v.get()?), Self::X(v) => Ok(*v),
\*              _ => Err(TryFromError::TypeMismatch) }
Coerce(v, literal, pending, answer) ==
    IF v.t = pending
    THEN [ret |-> IF Failed(answer) THEN Err(InputError)
                  ELSE Ok(AnswerValue(pending, answer)),
          calls |-> <<[node |-> v, answer |-> answer]>>]
    ELSE IF v.t = literal THEN [ret |-> Ok(v.v), calls |-> <<>>]
    ELSE [ret |-> Err(TypeMismatch), calls |-> <<>>]

as_bool(v, answer) == Coerce(v, "Bool", "InputBool", answer)
as_int(v, answer) == Coerce(v, "Int", "InputInt", answer)
as_float(v, answer) == Coerce(v, "Float", "InputFloat", answer)
as_string(v, answer) == Coerce(v, "String", "InputString", answer)

\* impl TryFrom<&Value> for bool / i64 / f64 / String
try_from(T, v, answer) ==
    CASE T = "bool" -> as_bool(v, answer)
      [] T = "i64" -> as_int(v, answer)
      [] T = "f64" -> as_float(v, answer)
      [] T = "String" -> as_string(v, answer)
ScalarTypes == {"bool", "i64", "f64", "String"}

(***************************************************************************)
(* Value::merge and Value::merge_mut (mod.rs 261-280).                     *)
(***************************************************************************)
\* BTreeMap::insert
MapInsert(m, key, val) ==
    [k \in DOMAIN m \cup {key} |-> IF k = key THEN val ELSE m[k]]

RECURSIVE merge_mut(_, _)
RECURSIVE MergeEntries(_, _, _)

\* the loop with the value of a key present on both sides overwritten
MergeEntriesOverwrite(self_map, other_map, keys) ==
    IF keys = <<>> THEN self_map
    ELSE MergeEntries(MapInsert(self_map, Head(keys), other_map[Head(keys)]),
                      other_map, Tail(keys))
\* the loop with the value of a key present on both sides kept
MergeEntriesKeepSelf(self_map, other_map, keys) ==
    IF keys = <<>> THEN self_map
    ELSE LET key == Head(keys) IN
         MergeEntries(IF key \in DOMAIN self_map THEN self_map
                      ELSE MapInsert(self_map, key, other_map[key]),
                      other_map, Tail(keys))

\* for (key, value) in other_map { ... }  (mod.rs 270-276), keys being the
\* keys of other_map still to visit
MergeEntries(self_map, other_map, keys) ==
    IF keys = <<>> THEN self_map
    ELSE LET key == Head(keys)
             val == other_map[key] IN
         MergeEntries(IF key \in DOMAIN self_map
                      THEN [self_map EXCEPT ![key] = merge_mut(@, val)]
                      ELSE MapInsert(self_map, key, val),
                      other_map, Tail(keys))

\* merge_mut with the arrays of both sides concatenated
MergeMutConcatArrays(self, o) ==
    IF self.t = "Object" /\ o.t = "Object"
    THEN Object(MergeEntries(self.v, o.v, SortedKeys(o.v)))
    ELSE IF self.t = "Array" /\ o.t = "Array" THEN Array(self.v \o o.v)
    ELSE o
\* merge_mut without the Object arm
MergeMutReplace(self, o) == o

\* the value of self after self.merge_mut(other)
merge_mut(self, o) ==
    IF self.t = "Object" /\ o.t = "Object"
    THEN Object(MergeEntries(self.v, o.v, SortedKeys(o.v)))
    ELSE o

\* let mut ret = self.clone(); ret.merge_mut(other); ret
merge(self, o) == merge_mut(self, o)

(***************************************************************************)
(* The untagged serde encoding of Value (mod.rs 10-24).  The serialized    *)
(* form is a tree of the serde data model: unit, bool, i64, f64, str, seq  *)
(* and map, a map being the sequence of its entries.                       *)
(***************************************************************************)
UnitC == [c |-> "Unit"]
BoolC(b) == [c |-> "Bool", v |-> b]
I64C(i) == [c |-> "I64", v |-> i]
F64C(f) == [c |-> "F64", v |-> f]
StrC(str) == [c |-> "Str", v |-> str]
SeqC(cs) == [c |-> "Seq", v |-> cs]
MapC(entries) == [c |-> "Map", v |-> entries]

\* #[derive(Serialize)] #[serde(untagged)]: each variant is written as its
\* payload, a Map<Value> entry by entry in key order.  Only the variants that
\* hold no pending input are written here.
RECURSIVE Serialize(_)
Serialize(v) ==
    CASE v.t = "Null" -> UnitC
      [] v.t = "Bool" -> BoolC(v.v)
      [] v.t = "Int" -> I64C(v.v)
      [] v.t = "Float" -> F64C(v.v)
      [] v.t = "String" -> StrC(v.v)
      [] v.t = "Array" -> SeqC([i \in DOMAIN v.v |-> Serialize(v.v[i])])
      [] v.t = "Object" ->
            MapC([i \in 1..Len(SortedKeys(v.v)) |->
                     [k |-> SortedKeys(v.v)[i],
                      v |-> Serialize(v.v[SortedKeys(v.v)[i]])]])

\* the keys of a serialized map, and the content stored under one of them
EntryKeys(c) == {c.v[i].k : i \in DOMAIN c.v}
EntryAt(c, key) == c.v[CHOOSE i \in DOMAIN c.v : c.v[i].k = key].v

\* A failed attempt is <<>>, a successful one <<the value read>>.
\* i64 reads an integer only; f64 reads a float or an integer
DeScalar(T, c) ==
    CASE T = "String" -> IF c.c = "Str" THEN <<c.v>> ELSE <<>>
      [] T = "bool" -> IF c.c = "Bool" THEN <<c.v>> ELSE <<>>
      [] T = "i64" -> IF c.c = "I64" THEN <<c.v>> ELSE <<>>
      [] T = "f64" -> IF c.c \in {"F64", "I64"} THEN <<c.v>> ELSE <<>>

\* Option<T> as a struct field: absent or unit is None, else Some of a T
FieldOk(T, c, key) ==
    key \in EntryKeys(c) =>
        (EntryAt(c, key).c = "Unit" \/ DeScalar(T, EntryAt(c, key)) # <<>>)
FieldValue(T, c, key) ==
    IF key \notin EntryKeys(c) \/ EntryAt(c, key).c = "Unit" THEN <<>>
    ELSE DeScalar(T, EntryAt(c, key))

\* Input<T> and BoolInput: a map whose keys are among default and description
DeInputFields(T, c) ==
    /\ c.c = "Map"
    /\ EntryKeys(c) \subseteq {"default", "description"}
    /\ FieldOk(T, c, "default")
    /\ FieldOk("String", c, "description")
\* Select<T>: a map with alternatives, a sequence of T, and maybe a description
DeSelectFields(T, c) ==
    /\ c.c = "Map"
    /\ EntryKeys(c) \subseteq {"alternatives", "description"}
    /\ "alternatives" \in EntryKeys(c)
    /\ EntryAt(c, "alternatives").c = "Seq"
    /\ \A i \in DOMAIN EntryAt(c, "alternatives").v :
          DeScalar(T, EntryAt(c, "alternatives").v[i]) # <<>>
    /\ FieldOk("String", c, "description")

DeBoolInput(c) ==
    IF DeInputFields("bool", c)
    THEN <<BoolInput(FieldValue("bool", c, "default"),
                     FieldValue("String", c, "description"))>>
    ELSE <<>>
\* UserInput<T>: Input<T>, else Select<T>
DeUserInput(T, c) ==
    IF DeInputFields(T, c)
    THEN <<Input(FieldValue(T, c, "default"), FieldValue("String", c, "description"))>>
    ELSE IF DeSelectFields(T, c)
    THEN <<Select([i \in DOMAIN EntryAt(c, "alternatives").v |->
                      DeScalar(T, EntryAt(c, "alternatives").v[i])[1]],
                  FieldValue("String", c, "description"))>>
    ELSE <<>>

\* The variants in the order the enum declares them: #[serde(untagged)] tries
\* them in this order and keeps the first that reads the input.
VariantOrderFloatBeforeInt ==
    << "Array", "InputString", "InputBool", "InputInt", "InputFloat", "Object",
       "String", "Bool", "Float", "Int", "Null" >>
VariantOrder ==
    << "Array", "InputString", "InputBool", "InputInt", "InputFloat", "Object",
       "String", "Bool", "Int", "Float", "Null" >>

RECURSIVE Deserialize(_)
Wrap(tag, attempt) == IF attempt = <<>> THEN <<>> ELSE <<[t |-> tag, v |-> attempt[1]]>>
\* one variant's attempt at reading c
TryVariant(variant, c) ==
    CASE variant = "Array" ->
            IF c.c = "Seq" /\ \A i \in DOMAIN c.v : Deserialize(c.v[i]) # <<>>
            THEN <<Array([i \in DOMAIN c.v |-> Deserialize(c.v[i])[1]])>>
            ELSE <<>>
      [] variant = "InputString" -> Wrap("InputString", DeUserInput("String", c))
      [] variant = "InputBool" -> Wrap("InputBool", DeBoolInput(c))
      [] variant = "InputInt" -> Wrap("InputInt", DeUserInput("i64", c))
      [] variant = "InputFloat" -> Wrap("InputFloat", DeUserInput("f64", c))
      [] variant = "Object" ->
            IF c.c = "Map" /\ \A i \in DOMAIN c.v : Deserialize(c.v[i].v) # <<>>
            THEN <<Object([k \in EntryKeys(c) |-> Deserialize(EntryAt(c, k))[1]])>>
            ELSE <<>>
      [] variant = "String" -> Wrap("String", DeScalar("String", c))
      [] variant = "Bool" -> Wrap("Bool", DeScalar("bool", c))
      [] variant = "Int" -> Wrap("Int", DeScalar("i64", c))
      [] variant = "Float" -> Wrap("Float", DeScalar("f64", c))
      [] variant = "Null" -> IF c.c = "Unit" THEN <<Null>> ELSE <<>>

\* #[derive(Deserialize)] #[serde(untagged)]: <<>> when no variant reads c
Deserialize(c) ==
    LET hits == SelectSeq(VariantOrder, LAMBDA variant : TryVariant(variant, c) # <<>>)
    IN IF hits = <<>> THEN <<>> ELSE TryVariant(hits[1], c)

(***************************************************************************)
(* The trees the operations are applied to.                                *)
(***************************************************************************)
Arrays(S, n) == UNION {{Array(s) : s \in [1..k -> S]} : k \in 0..n}
Objects(K, S) == UNION {{Object(m) : m \in [D -> S]} : D \in SUBSET K}

Scalars ==
    {Null} \cup {Bool(b) : b \in BOOLEAN} \cup {Int(i) : i \in 1..MaxInt}
        \cup {Float(f) : f \in 1..MaxInt}
        \cup {String(StrPool[i]) : i \in DOMAIN StrPool}
Pendings ==
    { InputBool(BoolInput(<<>>, <<>>)), InputBool(BoolInput(<<TRUE>>, <<"d">>)),
      InputInt(Input(<<1>>, <<>>)), InputInt(Select(<<1, MaxInt>>, <<>>)),
      InputFloat(Input(<<>>, <<"d">>)),
      InputString(Input(<<"s">>, <<>>)), InputString(Select(<<"s", "x">>, <<>>)) }
Leaves == Scalars \cup Pendings

\* what the containers of depth one hold
ElemLeaves ==
    { Null, Int(1), String("s"), InputBool(BoolInput(<<>>, <<>>)),
      InputInt(Input(<<1>>, <<>>)), InputFloat(Input(<<>>, <<"d">>)),
      InputString(Select(<<"s", "x">>, <<>>)) }
Depth1 == Arrays(ElemLeaves, MaxLen) \cup Objects({"a", "b"}, ElemLeaves)

\* what the containers of depth two hold
ElemNested ==
    { Int(1), InputInt(Select(<<1, MaxInt>>, <<>>)),
      Array(<<>>), Array(<<InputBool(BoolInput(<<>>, <<>>)), Null>>),
      Object([k \in {"b"} |-> Float(1)]),
      Object([k \in {"a", "b"} |->
                 IF k = "a" THEN InputString(Input(<<"s">>, <<>>))
                 ELSE InputFloat(Input(<<>>, <<"d">>))]) }
Depth2 == Arrays(ElemNested, MaxLen) \cup Objects({"a", "b"}, ElemNested)

Universe == Leaves \cup Depth1 \cup Depth2

(***************************************************************************)
(* The state machine: a Value and the operations called on it.             *)
(***************************************************************************)
Init ==
    /\ value \in Universe
    /\ other = Null
    /\ wire = <<>>
    /\ op = "none"
    /\ args = <<>>
    /\ pre = value
    /\ ret = Ok(Unit)
    /\ calls = <<>>

\* value.init()
InitOp ==
    \E script \in [1..NumPending(value) -> Answers] :
        LET r == init(value, script) IN
        /\ value' = r.v
        /\ ret' = IF r.ok THEN Ok(Unit) ELSE Err(InputError)
        /\ calls' = r.calls
        /\ pre' = value
        /\ op' = "init"
        /\ args' = <<>>
        /\ UNCHANGED <<other, wire>>

\* as_* storing the literal it resolved in self
SelfAfterCoerceStored(v, r) ==
    IF v.t \in PendingTags /\ r.calls # <<>> /\ r.ret.ok
    THEN [t |-> LiteralTag(v.t), v |-> r.ret.v]
    ELSE v
\* as_* take &self: self is as it was
SelfAfterCoerce(v, r) == v

Returned(name, r) ==
    /\ ret' = r.ret
    /\ calls' = r.calls
    /\ pre' = value
    /\ op' = name
    /\ args' = <<>>
    /\ value' = SelfAfterCoerce(value, r)
    /\ UNCHANGED <<other, wire>>

\* value.as_bool(), value.as_int(), value.as_float(), value.as_string()
AsBoolOp == \E answer \in Answers : Returned("as_bool", as_bool(value, answer))
AsIntOp == \E answer \in Answers : Returned("as_int", as_int(value, answer))
AsFloatOp == \E answer \in Answers : Returned("as_float", as_float(value, answer))
AsStringOp == \E answer \in Answers : Returned("as_string", as_string(value, answer))

\* T::try_from(&value)
TryFromOp ==
    \E T \in ScalarTypes, answer \in Answers :
        Returned(T, try_from(T, value, answer))

Next == InitOp \/ AsBoolOp \/ AsIntOp \/ AsFloatOp \/ AsStringOp \/ TryFromOp

Spec == Init /\ [][Next]_vars

(***************************************************************************)
(* The state machine of merge: two trees and the merges of the first with  *)
(* the second.                                                             *)
(***************************************************************************)
MergeAtoms ==
    { Null, Bool(TRUE), Int(1), Int(MaxInt), InputInt(Input(<<1>>, <<>>)),
      InputString(Select(<<"s", "x">>, <<>>)),
      Array(<<>>), Array(<<Int(MaxInt)>>), Array(<<Int(1), Int(MaxInt)>>) }
MergeInner ==
    { Object([k \in {"a"} |-> Int(1)]), Object([k \in {"b"} |-> Int(1)]),
      Object([k \in {"a", "b"} |-> IF k = "a" THEN Int(MaxInt) ELSE Int(1)]) }
MergeOuter ==
    Objects({"a", "b", "c"},
            {Int(1), Int(MaxInt), Array(<<Int(1), Int(MaxInt)>>)} \cup MergeInner)
MergeUniverse == MergeAtoms \cup MergeOuter

InitMerge ==
    /\ value \in MergeUniverse
    /\ other \in MergeUniverse
    /\ wire = <<>>
    /\ op = "none"
    /\ args = <<>>
    /\ pre = value
    /\ ret = Ok(Unit)
    /\ calls = <<>>

\* merge working on self instead of a clone of it
MergeReceiverNoClone(self, o) == merge_mut(self, o)
\* merge takes &self and merges into self.clone(): self is as it was
MergeReceiver(self, o) == self

\* value.merge(&other)
MergeOp ==
    /\ ret' = merge(value, other)
    /\ pre' = value
    /\ op' = "merge"
    /\ args' = <<>>
    /\ calls' = <<>>
    /\ value' = MergeReceiver(value, other)
    /\ UNCHANGED <<other, wire>>

\* value.merge_mut(&other)
MergeMutOp ==
    /\ value' = merge_mut(value, other)
    /\ ret' = Ok(Unit)
    /\ pre' = value
    /\ op' = "merge_mut"
    /\ args' = <<>>
    /\ calls' = <<>>
    /\ UNCHANGED <<other, wire>>

NextMerge == MergeOp \/ MergeMutOp

SpecMerge == InitMerge /\ [][NextMerge]_vars

(***************************************************************************)
(* The state machine of the encoding: a tree, its serialized form and what *)
(* is read back from it.                                                   *)
(***************************************************************************)
SerdeFieldValues ==
    { Null, Bool(TRUE), Int(1), Float(1), String("s"),
      Array(<<Int(1), Int(MaxInt)>>) }
SerdeFlat ==
    Scalars \cup Objects({"a", "alternatives", "default", "description"}, SerdeFieldValues)
SerdeElems ==
    { Int(1), Float(MaxInt), new, Object([k \in {"default"} |-> String("s")]),
      Object([k \in {"a"} |-> Int(1)]) }
SerdeNested == Arrays(SerdeElems, MaxLen) \cup Objects({"a", "default"}, SerdeElems)
SerdeUniverse == SerdeFlat \cup SerdeNested

InitSerde ==
    /\ value \in SerdeUniverse
    /\ other = Null
    /\ wire = <<>>
    /\ op = "none"
    /\ args = <<>>
    /\ pre = value
    /\ ret = Ok(Unit)
    /\ calls = <<>>

\* the pending-input variants are written by value/input.rs
CanSerialize(v) == NumPending(v) = 0

\* value.serialize(serializer)
SerializeOp ==
    /\ CanSerialize(value)
    /\ wire' = <<Serialize(value)>>
    /\ ret' = Ok(Unit)
    /\ pre' = value
    /\ op' = "serialize"
    /\ args' = <<>>
    /\ calls' = <<>>
    /\ UNCHANGED <<value, other>>

\* Value::deserialize(deserializer) on the serialized form
DeserializeOp ==
    /\ wire # <<>>
    /\ ret' = (IF Deserialize(wire[1]) = <<>> THEN Err("invalid")
               ELSE Ok(Deserialize(wire[1])[1]))
    /\ pre' = value
    /\ op' = "deserialize"
    /\ args' = <<>>
    /\ calls' = <<>>
    /\ UNCHANGED <<value, other, wire>>

NextSerde == SerializeOp \/ DeserializeOp

SpecSerde == InitSerde /\ [][NextSerde]_vars

(***************************************************************************)
(* Value::get, Value::get_or and Value::insert (mod.rs 171-199), and the   *)
(* state machine of the calls to them.  A call either returns or panics.   *)
(***************************************************************************)
Returns(x) == [panic |-> FALSE, v |-> x]
\* panic!("value is not an object")
Panics == [panic |-> TRUE, msg |-> "value is not an object"]

\* get answering None on a receiver that is no Object
GetNoneOnNonObject(self, key) ==
    IF self.t = "Object" /\ key \in DOMAIN self.v THEN Returns(<<self.v[key]>>)
    ELSE Returns(<<>>)
\* Option<&Self>: <<>> is None, <<v>> is Some(v)
get(self, key) ==
    IF self.t = "Object"
    THEN Returns(IF key \in DOMAIN self.v THEN <<self.v[key]>> ELSE <<>>)
    ELSE Panics

\* get_or falling back to the default when the stored value does not convert
GetOrDefaultOnMismatch(self, key, T, default, answer) ==
    LET g == get(self, key) IN
    IF g.panic THEN [out |-> Panics, calls |-> <<>>]
    ELSE IF g.v = <<>> THEN [out |-> Returns(Ok(default)), calls |-> <<>>]
    ELSE LET r == try_from(T, g.v[1], answer) IN
         [out |-> Returns(IF r.ret.ok THEN r.ret ELSE Ok(default)), calls |-> r.calls]
\* match self.get(key) { Some(value) => value.try_into(), None => Ok(default) }
\* with T the type of default
get_or(self, key, T, default, answer) ==
    LET g == get(self, key) IN
    IF g.panic THEN [out |-> Panics, calls |-> <<>>]
    ELSE IF g.v = <<>> THEN [out |-> Returns(Ok(default)), calls |-> <<>>]
    ELSE LET r == try_from(T, g.v[1], answer) IN
         [out |-> Returns(r.ret), calls |-> r.calls]

\* the receiver after the call and the call's outcome
insert(self, key, val) ==
    IF self.t = "Object"
    THEN [self |-> Object(MapInsert(self.v, key, val)), out |-> Returns(Unit)]
    ELSE [self |-> self, out |-> Panics]

\* a default of type T
DefaultOf(T, k) ==
    CASE T = "bool" -> (k % 2 = 1)
      [] T = "i64" -> k
      [] T = "f64" -> k
      [] T = "String" -> StrPool[((k - 1) % Len(StrPool)) + 1]

AccessKeys == {"a", "b", "c"}
AccessFieldValues ==
    { Null, Bool(TRUE), Int(1), Float(1), String("s"),
      InputBool(BoolInput(<<>>, <<>>)), InputInt(Input(<<1>>, <<>>)),
      Array(<<Int(1)>>), new }
InsertedValues == {Int(MaxInt), InputString(Input(<<"s">>, <<>>)), new}
AccessUniverse ==
    Leaves \cup Arrays({Int(1), new}, MaxLen) \cup Objects({"a", "b"}, AccessFieldValues)

InitAccess ==
    /\ value \in AccessUniverse
    /\ other = Null
    /\ wire = <<>>
    /\ op = "none"
    /\ args = <<>>
    /\ pre = value
    /\ ret = Returns(Unit)
    /\ calls = <<>>

\* value.get(key)
GetOp ==
    \E key \in AccessKeys :
        /\ ret' = get(value, key)
        /\ op' = "get"
        /\ args' = <<key>>
        /\ pre' = value
        /\ calls' = <<>>
        /\ UNCHANGED <<value, other, wire>>

\* value.get_or(key, default)
GetOrOp ==
    \E key \in AccessKeys, T \in ScalarTypes, k \in 1..MaxInt, answer \in Answers :
        LET r == get_or(value, key, T, DefaultOf(T, k), answer) IN
        /\ ret' = r.out
        /\ op' = "get_or"
        /\ args' = <<key, T, DefaultOf(T, k)>>
        /\ pre' = value
        /\ calls' = r.calls
        /\ UNCHANGED <<value, other, wire>>

\* value.insert(key, val)
InsertOp ==
    \E key \in AccessKeys \ {"c"}, val \in InsertedValues :
        LET r == insert(value, key, val) IN
        /\ value' = r.self
        /\ ret' = r.out
        /\ op' = "insert"
        /\ args' = <<key, val>>
        /\ pre' = value
        /\ calls' = <<>>
        /\ UNCHANGED <<other, wire>>

NextAccess == GetOp \/ GetOrOp \/ InsertOp

SpecAccess == InitAccess /\ [][NextAccess]_vars

(***************************************************************************)
(* Vocabulary of the properties.                                           *)
(***************************************************************************)
\* every node of a tree, the root included
RECURSIVE Subtrees(_)
Subtrees(v) ==
    {v} \cup
    (IF v.t = "Object" THEN UNION {Subtrees(v.v[k]) : k \in DOMAIN v.v}
     ELSE IF v.t = "Array" THEN UNION {Subtrees(v.v[i]) : i \in DOMAIN v.v}
     ELSE {})
IsPending(v) == v.t \in PendingTags
FullyConcrete(v) == \A n \in Subtrees(v) : ~IsPending(n)

\* the nodes that are neither Array nor Object, in traversal order: index order
\* within an Array, ascending key order within an Object
RECURSIVE Flatten(_)
RECURSIVE FlattenAll(_)
FlattenAll(vs) == IF vs = <<>> THEN <<>> ELSE Flatten(Head(vs)) \o FlattenAll(Tail(vs))
Flatten(v) ==
    IF v.t = "Object" THEN FlattenAll(MapValues(v.v))
    ELSE IF v.t = "Array" THEN FlattenAll(v.v)
    ELSE <<v>>
\* the positions of the pending-input nodes in Flatten(v), ascending
PendingAt(v) ==
    LET F == Flatten(v) IN SelectSeq([i \in DOMAIN F |-> i], LAMBDA i : IsPending(F[i]))

\* b is a with nothing changed but pending-input nodes, each either left as it
\* was or replaced by a literal of its logical type
RECURSIVE SameFrame(_, _)
SameFrame(a, b) ==
    IF a.t = "Object"
    THEN /\ b.t = "Object"
         /\ DOMAIN b.v = DOMAIN a.v
         /\ \A k \in DOMAIN a.v : SameFrame(a.v[k], b.v[k])
    ELSE IF a.t = "Array"
    THEN /\ b.t = "Array"
         /\ Len(b.v) = Len(a.v)
         /\ \A i \in DOMAIN a.v : SameFrame(a.v[i], b.v[i])
    ELSE IF IsPending(a) THEN b = a \/ b.t = LiteralTag(a.t)
    ELSE b = a

\* C1: when init returns Ok, no InputBool, InputInt, InputFloat or InputString
\* node remains at any depth of the tree.
C1_InitOkFullyConcrete ==
    (op = "init" /\ ret.ok) => \A n \in Subtrees(value) : n.t \notin PendingTags
\* an init that returned Ok on an Object holding an Array that held a pending node
C1_Witness ==
    /\ op = "init" /\ ret.ok
    /\ pre.t = "Object"
    /\ \E k \in DOMAIN pre.v :
          /\ pre.v[k].t = "Array"
          /\ \E i \in DOMAIN pre.v[k].v : IsPending(pre.v[k].v[i])

\* C5: when a resolution fails, init returns that error and stops: the pending
\* nodes before the failing one in traversal order are literals, the failing
\* node and every node after it are as they were.
C5_InitStopsAtFirstFailure ==
    (op = "init" /\ ~ret.ok) =>
        LET F == Flatten(pre)
            G == Flatten(value)
            P == PendingAt(pre)
            n == Len(calls)
        IN /\ ret = Err(InputError)
           /\ n >= 1 /\ n <= Len(P)
           /\ Failed(calls[n].answer) /\ calls[n].node = F[P[n]]
           /\ SameFrame(pre, value)
           /\ Len(G) = Len(F)
           /\ \A j \in DOMAIN F :
                 /\ (j < P[n] /\ IsPending(F[j])) => G[j].t = LiteralTag(F[j].t)
                 /\ j >= P[n] => G[j] = F[j]
           /\ (pre.t = "Object" /\ {"a", "b"} \subseteq DOMAIN pre.v
                  /\ value.v["b"] # pre.v["b"])
                 => (IsPending(pre.v["a"]) => ~IsPending(value.v["a"]))
           /\ pre.t = "Array" =>
                 \A i, j \in DOMAIN pre.v :
                     (i < j /\ value.v[j] # pre.v[j] /\ IsPending(pre.v[i]))
                         => ~IsPending(value.v[i])
\* a failure at the second invocation or later, with a pending node after the
\* failing one
C5_Witness ==
    /\ op = "init" /\ ~ret.ok
    /\ Len(calls) >= 2
    /\ Len(PendingAt(pre)) > Len(calls)
    /\ pre.t = "Object"

\* C6: on a fully-concrete tree init returns Ok, changes nothing and never
\* invokes the capability; so a second init after a successful one is a no-op.
C6_InitIdempotent ==
    (op = "init" /\ FullyConcrete(pre)) =>
        /\ ret = Ok(Unit)
        /\ value = pre
        /\ calls = <<>>
\* init on a tree an earlier init made concrete: no container of the initial
\* trees holds a Bool, so the Bool was resolved from an InputBool
C6_Witness ==
    /\ op = "init" /\ FullyConcrete(pre)
    /\ pre.t \in {"Array", "Object"}
    /\ \E n \in Subtrees(pre) \ {pre} : n.t = "Bool"

\* C7: init changes nothing but pending-input nodes: key sets, lengths,
\* positions, literals and Null are as before, and the i-th pending node in
\* traversal order that was resolved is the literal of its logical type holding
\* the value the i-th invocation returned.
C7_InitFrame ==
    (op = "init") =>
        LET F == Flatten(pre)
            G == Flatten(value)
            P == PendingAt(pre)
        IN /\ SameFrame(pre, value)
           /\ Len(G) = Len(F)
           /\ Len(calls) <= Len(P)
           /\ \A i \in DOMAIN P :
                 IF i <= Len(calls) /\ ~Failed(calls[i].answer)
                 THEN /\ calls[i].node = F[P[i]]
                      /\ G[P[i]] = [t |-> LiteralTag(F[P[i]].t),
                                    v |-> AnswerValue(F[P[i]].t, calls[i].answer)]
                 ELSE G[P[i]] = F[P[i]]
\* an init that resolved pending nodes of all four types next to literals
C7_Witness ==
    /\ op = "init" /\ ret.ok
    /\ \E n \in Subtrees(pre) : n.t = "InputInt"
    /\ \E n \in Subtrees(pre) : n.t = "InputBool"
    /\ \E n \in Subtrees(pre) \ {pre} : n.t = "Null"
    /\ value # pre

\* C8: for each scalar type T, is_T holds iff as_T (and T::try_from) does not
\* fail with TypeMismatch; a pending node of type T passes is_T and its as_T
\* returns Ok or an input-resolution error.
IsT(T, v) ==
    CASE T = "bool" -> is_bool(v)
      [] T = "i64" -> is_int(v)
      [] T = "f64" -> is_float(v)
      [] T = "String" -> is_string(v)
AsOpName(T) ==
    CASE T = "bool" -> "as_bool"
      [] T = "i64" -> "as_int"
      [] T = "f64" -> "as_float"
      [] T = "String" -> "as_string"
PendingTagOf(T) ==
    CASE T = "bool" -> "InputBool"
      [] T = "i64" -> "InputInt"
      [] T = "f64" -> "InputFloat"
      [] T = "String" -> "InputString"
IsTypeMismatch(r) == ~r.ok /\ r.e = TypeMismatch
C8_PredicateCoercionConsistent ==
    \A T \in ScalarTypes :
        (op \in {AsOpName(T), T}) =>
            /\ IsT(T, value) <=> ~IsTypeMismatch(ret)
            /\ value.t = PendingTagOf(T) =>
                  /\ IsT(T, value)
                  /\ ret.ok \/ ret.e = InputError
\* as_bool on a pending InputBool whose resolution failed
C8_Witness ==
    /\ op = "as_bool"
    /\ value.t = "InputBool"
    /\ ret = Err(InputError)

\* the tree self.merge(other) returned, or self.merge_mut(other) left in self
Merged == IF op = "merge" THEN ret ELSE value
MergeRan == op \in {"merge", "merge_mut"}

\* C2: the merge of two Objects is an Object over the union of the key sets; a
\* key of self alone keeps self's value, a key of other alone takes other's
\* value, a key of both holds the merge of self's value with other's.
C2_MergeObjects ==
    (MergeRan /\ pre.t = "Object" /\ other.t = "Object") =>
        /\ Merged.t = "Object"
        /\ DOMAIN Merged.v = DOMAIN pre.v \cup DOMAIN other.v
        /\ \A k \in DOMAIN pre.v \ DOMAIN other.v : Merged.v[k] = pre.v[k]
        /\ \A k \in DOMAIN other.v \ DOMAIN pre.v : Merged.v[k] = other.v[k]
        /\ \A k \in DOMAIN pre.v \cap DOMAIN other.v :
              Merged.v[k] = merge(pre.v[k], other.v[k])
\* a merge of two Objects with a key of self alone, a key of other alone and
\* a shared key holding two different Objects that share a key
C2_Witness ==
    /\ op = "merge" /\ pre.t = "Object" /\ other.t = "Object"
    /\ DOMAIN pre.v \ DOMAIN other.v # {}
    /\ DOMAIN other.v \ DOMAIN pre.v # {}
    /\ \E k \in DOMAIN pre.v \cap DOMAIN other.v :
          /\ pre.v[k].t = "Object" /\ other.v[k].t = "Object"
          /\ DOMAIN pre.v[k].v # DOMAIN other.v[k].v
          /\ DOMAIN other.v[k].v \cap DOMAIN pre.v[k].v # {}
          /\ ret.v[k] \notin {pre.v[k], other.v[k]}

\* C3: when self and other are not both Objects, the merge is exactly other;
\* arrays are replaced, never concatenated or merged element-wise.
C3_MergeReplaces ==
    (MergeRan /\ ~(pre.t = "Object" /\ other.t = "Object")) => Merged = other
\* a merge of two different non-empty Arrays
C3_Witness ==
    /\ op = "merge"
    /\ pre.t = "Array" /\ other.t = "Array"
    /\ pre.v # <<>> /\ other.v # <<>> /\ pre # other

\* C9 as stated: a.merge(b) differs from b.merge(a) whenever a key of both
\* holds different values.
C9_DiffersOnAnyDifference ==
    (op = "merge" /\ pre.t = "Object" /\ other.t = "Object"
        /\ \E k \in DOMAIN pre.v \cap DOMAIN other.v : pre.v[k] # other.v[k])
    => ret # merge(other, pre)

\* two values conflict when they differ and are not both Objects, or are
\* Objects with a shared key whose values conflict
RECURSIVE Conflict(_, _)
Conflict(a, b) ==
    IF a.t = "Object" /\ b.t = "Object"
    THEN \E k \in DOMAIN a.v \cap DOMAIN b.v : Conflict(a.v[k], b.v[k])
    ELSE a # b
\* C9 (amended): merge is right-biased: a shared key whose values are not both
\* Objects holds other's value; and a.merge(b) differs from b.merge(a) exactly
\* when a and b conflict.
C9_RightBiasedNonCommutative ==
    (op = "merge" /\ pre.t = "Object" /\ other.t = "Object") =>
        /\ \A k \in DOMAIN pre.v \cap DOMAIN other.v :
              ~(pre.v[k].t = "Object" /\ other.v[k].t = "Object")
                  => ret.v[k] = other.v[k]
        /\ Conflict(pre, other) <=> ret # merge(other, pre)
\* two merges that differ by order: a shared key holds different scalars
C9_Witness ==
    /\ op = "merge" /\ pre.t = "Object" /\ other.t = "Object"
    /\ \E k \in DOMAIN pre.v \cap DOMAIN other.v :
          /\ pre.v[k].t = "Int" /\ other.v[k].t = "Int"
          /\ pre.v[k] # other.v[k]
    /\ ret # merge(other, pre)

\* C10: for every Object v, v.merge(Value::new()) equals v.
C10_MergeIdentity ==
    (op = "merge" /\ pre.t = "Object" /\ other = new) => ret = pre
\* a merge of an Object holding a nested Object with the empty Object
C10_Witness ==
    /\ op = "merge" /\ other = new
    /\ pre.t = "Object"
    /\ \E k \in DOMAIN pre.v : pre.v[k].t = "Object" /\ pre.v[k] # new

\* C4 as stated: deserializing the serialization of a fully-concrete tree,
\* the empty Object and Objects keyed default, description or alternatives
\* included, yields the tree.
C4_RoundTripAll ==
    (op = "deserialize" /\ FullyConcrete(value) /\ wire = <<Serialize(value)>>)
        => ret = Ok(value)

\* an Object whose keys are all among default, description and alternatives;
\* the empty Object is one
InputKeyed(n) ==
    n.t = "Object" /\ DOMAIN n.v \subseteq {"default", "description", "alternatives"}
\* C4 (amended): deserializing the serialization of a fully-concrete tree in
\* which every Object, at every depth, has a key other than default,
\* description and alternatives yields the tree.
C4_RoundTrip ==
    (op = "deserialize" /\ FullyConcrete(value) /\ wire = <<Serialize(value)>>
        /\ \A n \in Subtrees(value) : ~InputKeyed(n))
        => ret = Ok(value)
\* a round trip of an Object holding default next to another key, an Int and
\* a Float
C4_Witness ==
    /\ op = "deserialize" /\ FullyConcrete(value) /\ wire = <<Serialize(value)>>
    /\ \A n \in Subtrees(value) : ~InputKeyed(n)
    /\ value.t = "Object"
    /\ {"default", "a"} \subseteq DOMAIN value.v
    /\ Int(1) \in Subtrees(value)
    /\ Float(1) \in Subtrees(value)
    /\ ret = Ok(value)

\* C11: get_or on an Object returns Ok(default) when the key is absent; when
\* it is present it returns the coercion of the stored value to the type of
\* default, so a stored value of another logical type yields
\* Err(TypeMismatch), never the default.
C11_GetOr ==
    (op = "get_or" /\ pre.t = "Object") =>
        LET key == args[1]
            T == args[2]
            default == args[3]
        IN IF key \notin DOMAIN pre.v
           THEN ret = Returns(Ok(default)) /\ calls = <<>>
           ELSE LET stored == pre.v[key] IN
                /\ ~ret.panic
                /\ stored.t = LiteralTag(PendingTagOf(T)) => ret.v = Ok(stored.v)
                /\ stored.t = PendingTagOf(T) =>
                      /\ Len(calls) = 1 /\ calls[1].node = stored
                      /\ ret.v = (IF Failed(calls[1].answer) THEN Err(InputError)
                                  ELSE Ok(AnswerValue(stored.t, calls[1].answer)))
                /\ ~IsT(T, stored) => ret.v = Err(TypeMismatch)
\* a get_or whose key holds a value of another type than the default's
C11_Witness ==
    /\ op = "get_or" /\ pre.t = "Object"
    /\ args[1] \in DOMAIN pre.v
    /\ args[2] = "i64"
    /\ pre.v[args[1]].t = "Float"
    /\ ret = Returns(Err(TypeMismatch))

\* C12: get, insert and get_or on a Value that is no Object panic instead of
\* returning, and insert leaves the receiver as it was; on an Object none of
\* them panics.
C12_PanicOnNonObject ==
    (op \in {"get", "insert", "get_or"}) =>
        /\ pre.t # "Object" => (ret = Panics /\ value = pre)
        /\ pre.t = "Object" => ~ret.panic
\* an insert on an Array, and so a panic
C12_Witness ==
    /\ op = "insert"
    /\ pre.t = "Array"
    /\ ret.panic

\* C13: during one init the capability is invoked at most once per pending
\* node, in traversal order (the i-th invocation is for the i-th pending
\* node), and after an invocation that fails it is not invoked again.
C13_SingleAttempt ==
    (op = "init") =>
        LET F == Flatten(pre)
            P == PendingAt(pre)
        IN /\ Len(calls) <= Len(P)
           /\ \A i \in DOMAIN calls :
                 /\ calls[i].node = F[P[i]]
                 /\ i < Len(calls) => ~Failed(calls[i].answer)
           /\ ret.ok <=> (Len(calls) = Len(P)
                            /\ \A i \in DOMAIN calls : ~Failed(calls[i].answer))
\* an init whose second invocation failed, with pending nodes left after it
C13_Witness ==
    /\ op = "init" /\ ~ret.ok
    /\ Len(calls) = 2
    /\ Failed(calls[2].answer)
    /\ Len(PendingAt(pre)) >= 3
    /\ pre.t = "Array"

\* C14: as_bool, as_int, as_float and as_string leave the Value as it is,
\* whether they succeed or fail; a pending node of the asked type stays
\* pending, and every such call on it, a repeated one included, invokes the
\* capability once.
AsOps == {"as_bool", "as_int", "as_float", "as_string"}
C14_CoercionsDoNotMutate ==
    [][op' \in AsOps =>
          /\ value' = value
          /\ LET T == CHOOSE U \in ScalarTypes : AsOpName(U) = op' IN
             IF value.t = PendingTagOf(T)
             THEN /\ Len(calls') = 1
                  /\ calls'[1].node = value
                  /\ ret' = (IF Failed(calls'[1].answer) THEN Err(InputError)
                             ELSE Ok(AnswerValue(value.t, calls'[1].answer)))
             ELSE calls' = <<>>]_vars
\* an as_int that resolved a pending InputInt and left it pending
C14_Witness ==
    /\ op = "as_int"
    /\ value.t = "InputInt"
    /\ ret.ok
    /\ Len(calls) = 1
    /\ value = pre

\* C15: merging the same other twice equals merging it once,
\* a.merge(b).merge(b) = a.merge(b), so a.merge(a) = a; merge leaves a and b as
\* they were, and a second merge_mut of the same other changes nothing.
C15_MergeIdempotent ==
    [][/\ op' = "merge" =>
             /\ value' = value /\ other' = other
             /\ merge(ret', other) = ret'
             /\ other = value => ret' = value
       /\ (op = "merge_mut" /\ op' = "merge_mut") => value' = value]_vars
\* a merge of two Objects whose result is neither of them
C15_Witness ==
    /\ op = "merge"
    /\ pre.t = "Object" /\ other.t = "Object"
    /\ ret \notin {pre, other}
    /\ merge(ret, other) = ret
    /\ value = pre

====
